---- MODULE Spec2Model ----
(***************************************************************************)
(* The meetup registry of src/bot.py: the store file meetups.json, the     *)
(* three storage functions (get_meetups, save_meetups,                     *)
(* generate_meetup_id) and the command handlers that use them              *)
(* (crear_quedada, eliminar_quedada, quedadas), run as coroutines of one   *)
(* cooperative event loop.                                                 *)
(***************************************************************************)
EXTENDS Integers, Sequences, FiniteSets, TLC

(* ---------------------------- bounds ----------------------------------- *)
NumHandlers == 3   \* command handlers that can be in flight together
MaxOps == 3        \* commands dispatched while others are in flight
MaxSeqOps == 5     \* commands dispatched one at a time
MaxFaultOps == 3   \* commands dispatched on a failing storage medium
MaxIdArg == 3      \* largest id_quedada a caller passes to eliminar-quedada

Handlers == 1..NumHandlers
FaultHandlers == 1..2

(* ---------------------------- inputs ----------------------------------- *)
\* estado values a caller can send; the first two are the declared choices
Choices == {"activo", "pendiente"}
Estados == Choices \cup {"cancelado"}
Fechas == {"2024-06-01", "2023-02-30", "1/6/24"}
Horas == {"18:00", "25:00", "6pm"}

\* re.compile(r'^\d{4}-\d{2}-\d{2}$').match(fecha)
date_regex(fecha) == fecha \in {"2024-06-01", "2023-02-30"}
\* re.compile(r'^\d{2}:\d{2}$').match(hora)
time_regex(hora) == hora \in {"18:00", "25:00"}
\* datetime.datetime(year, month, day, hours, minutes) does not raise
datetime_ok(fecha, hora) == fecha = "2024-06-01" /\ hora = "18:00"

(* ------------------------ the store file ------------------------------- *)
\* The file is the sequence of tokens json.dump wrote; a record is one token.
NoMeetup == [id |-> 0, status |-> "", participants |-> <<>>]
OpenTok == [tok |-> "open", val |-> NoMeetup]
CloseTok == [tok |-> "close", val |-> NoMeetup]
RecTok(m) == [tok |-> "rec", val |-> m]

\* json.dump({"meetups": [...]}, f): the complete document
json_dump(meetups) ==
  <<OpenTok>> \o [i \in 1..Len(meetups) |-> RecTok(meetups[i])] \o <<CloseTok>>

\* json.load accepts exactly a complete document
json_parses(bytes) ==
  /\ Len(bytes) >= 2
  /\ bytes[1] = OpenTok
  /\ bytes[Len(bytes)] = CloseTok
  /\ \A i \in 2..(Len(bytes) - 1) : bytes[i].tok = "rec"

json_load(bytes) == [i \in 1..(Len(bytes) - 2) |-> bytes[i + 1].val]

\* outcomes of the I/O the storage functions do
ReadOutcomes == {"ok", "error"}
ReadOk == {"ok"}

\* get_meetups(): the parsed list, or the empty list on any exception
get_meetups(bytes, rd) ==
  IF rd = "ok" /\ json_parses(bytes) THEN json_load(bytes) ELSE <<>>

\* the except branch of get_meetups was taken
get_meetups_failed(bytes, rd) == ~(rd = "ok" /\ json_parses(bytes))

\* save_meetups(): wr = 0 is open() raising (file untouched), wr = k > 0 is
\* the write stopping after k - 1 tokens of the truncated file, wr = -1 is
\* success.
WriteOk == {-1}
WriteOutcomes(meetups) == (-1)..(Len(json_dump(meetups)))

save_file(bytes, meetups, wr) ==
  IF wr = -1 THEN json_dump(meetups)
  ELSE IF wr = 0 THEN bytes
  ELSE SubSeq(json_dump(meetups), 1, wr - 1)

save_meetups(wr) == wr = -1

Max(S) == CHOOSE x \in S : \A y \in S : y <= x
Ids(meetups) == {meetups[i].id : i \in 1..Len(meetups)}

\* generate_meetup_id() numbering by the count of records, not the maximum
generate_meetup_id_count(bytes, rd) == Len(get_meetups(bytes, rd)) + 1

\* generate_meetup_id() starting over at the smallest unused id
generate_meetup_id_gap(bytes, rd) ==
  LET ids == Ids(get_meetups(bytes, rd))
  IN CHOOSE n \in 1..(Cardinality(ids) + 1) :
       n \notin ids /\ \A m \in 1..(n - 1) : m \in ids

\* generate_meetup_id()
generate_meetup_id(bytes, rd) ==
  LET ids == Ids(get_meetups(bytes, rd))
  IN IF ids # {} THEN Max(ids) + 1 ELSE 1

\* del meetups_data["meetups"][meetup_index:], a slice in place of an index
RemoveFrom(s, i) == SubSeq(s, 1, i - 1)

\* del meetups_data["meetups"][meetup_index]
RemoveAt(s, i) == [j \in 1..(Len(s) - 1) |-> IF j < i THEN s[j] ELSE s[j + 1]]

\* the for loop with meetup_index starting at the first record, not None
find_index_first(meetups, id) ==
  IF \E i \in 1..Len(meetups) : meetups[i].id = id
  THEN CHOOSE i \in 1..Len(meetups) :
         /\ meetups[i].id = id
         /\ \A j \in 1..(i - 1) : meetups[j].id # id
  ELSE IF Len(meetups) > 0 THEN 1 ELSE 0

\* the for loop of eliminar_quedada: first index whose id matches, 0 for None
find_index(meetups, id) ==
  IF \E i \in 1..Len(meetups) : meetups[i].id = id
  THEN CHOOSE i \in 1..Len(meetups) :
         /\ meetups[i].id = id
         /\ \A j \in 1..(i - 1) : meetups[j].id # id
  ELSE 0

(* ---------------------------- state ------------------------------------ *)
VARIABLES
  file,          \* content of data/meetups.json
  running,       \* handler that holds the event loop, 0 when the loop is free
  pc,            \* position of each handler's coroutine
  estado,        \* crear_quedada: the estado argument
  id_quedada,    \* eliminar_quedada: the id_quedada argument
  new_meetup,    \* crear_quedada: new_meetup
  meetups_data,  \* meetups_data["meetups"] of the handler
  meetup,        \* eliminar_quedada: the record taken out; quedadas: unused
  resp,          \* message the handler passes to interaction.response
  nops,          \* commands dispatched so far
  hist,          \* store operations in the order they took effect
  batch,         \* ids given by successful creates since the last delete
  retired,       \* ids deleted while smaller than the maximum id
  pendingMax     \* ids deleted while the maximum, since the last create

locals == <<estado, id_quedada, new_meetup, meetups_data, meetup>>
ghosts == <<hist, batch, retired, pendingMax>>
vars == <<file, running, pc, resp, nops, locals, ghosts>>

\* lines 38-41: the file is created holding {"meetups": []}
Init ==
  /\ file = json_dump(<<>>)
  /\ running = 0
  /\ pc = [h \in Handlers |-> "idle"]
  /\ estado = [h \in Handlers |-> ""]
  /\ id_quedada = [h \in Handlers |-> 0]
  /\ new_meetup = [h \in Handlers |-> NoMeetup]
  /\ meetups_data = [h \in Handlers |-> <<>>]
  /\ meetup = [h \in Handlers |-> NoMeetup]
  /\ resp = [h \in Handlers |-> "none"]
  /\ nops = 0
  /\ hist = <<>>
  /\ batch = <<>>
  /\ retired = {}
  /\ pendingMax = {}

(* ------------------------- the event loop ------------------------------ *)
\* generate_meetup_id() awaited: a suspension between the id and the load
SuspensionPointsId == {"send", "c_load"}

\* save_meetups() awaited: a suspension between the load and the save
SuspensionPointsSave == {"send", "c_save", "e_save"}

\* positions at which a coroutine is suspended in an await
SuspensionPoints == {"send"}

\* the loop runs one coroutine until it awaits
Runnable(h) == running \in {0, h}
Yield(h, to) == IF to \in SuspensionPoints \cup {"idle"} THEN 0 ELSE h

Commands == {"crear-quedada", "eliminar-quedada", "quedadas"}
Entry(c) == IF c = "crear-quedada" THEN "c_validate"
            ELSE IF c = "eliminar-quedada" THEN "e_perm" ELSE "q_list"

\* bot.tree dispatches an interaction: a task for the handler is created
Dispatch(h, c, max) ==
  /\ running = 0
  /\ pc[h] = "idle"
  /\ nops < max
  /\ pc' = [pc EXCEPT ![h] = Entry(c)]
  /\ nops' = nops + 1
  /\ UNCHANGED <<file, running, resp, locals, ghosts>>

\* the awaited interaction.response.send_message returns, the handler ends
SendDone(h) ==
  /\ running = 0
  /\ pc[h] = "send"
  /\ pc' = [pc EXCEPT ![h] = "idle"]
  /\ resp' = [resp EXCEPT ![h] = "none"]
  /\ estado' = [estado EXCEPT ![h] = ""]
  /\ id_quedada' = [id_quedada EXCEPT ![h] = 0]
  /\ new_meetup' = [new_meetup EXCEPT ![h] = NoMeetup]
  /\ meetups_data' = [meetups_data EXCEPT ![h] = <<>>]
  /\ meetup' = [meetup EXCEPT ![h] = NoMeetup]
  /\ UNCHANGED <<file, running, nops, ghosts>>

\* a handler moves to position `to` with response r
Goto(h, to, r) ==
  /\ pc' = [pc EXCEPT ![h] = to]
  /\ resp' = [resp EXCEPT ![h] = r]
  /\ running' = Yield(h, to)

(* ------------------------- crear_quedada ------------------------------- *)
\* lines 190-208: the format and calendar checks of fecha and hora
c_validate(h, fecha, hora, est) ==
  /\ pc[h] = "c_validate"
  /\ Runnable(h)
  /\ IF ~date_regex(fecha) THEN
       Goto(h, "send", "bad_date_format") /\ UNCHANGED estado
     ELSE IF ~time_regex(hora) THEN
       Goto(h, "send", "bad_time_format") /\ UNCHANGED estado
     ELSE IF ~datetime_ok(fecha, hora) THEN
       Goto(h, "send", "bad_datetime") /\ UNCHANGED estado
     ELSE
       /\ Goto(h, "c_new", "none")
       /\ estado' = [estado EXCEPT ![h] = est]
  /\ UNCHANGED <<file, nops, id_quedada, new_meetup, meetups_data, meetup, ghosts>>

\* lines 210-218: new_meetup, its id from generate_meetup_id()
c_new(h, rd) ==
  /\ pc[h] = "c_new"
  /\ Runnable(h)
  /\ new_meetup' = [new_meetup EXCEPT ![h] =
        [id |-> generate_meetup_id(file, rd), status |-> estado[h],
         participants |-> <<>>]]
  /\ Goto(h, "c_load", "none")
  /\ UNCHANGED <<file, nops, estado, id_quedada, meetups_data, meetup, ghosts>>

\* lines 220-221: the second load, and the append
c_load(h, rd) ==
  /\ pc[h] = "c_load"
  /\ Runnable(h)
  /\ meetups_data' = [meetups_data EXCEPT ![h] =
        Append(get_meetups(file, rd), new_meetup[h])]
  /\ Goto(h, "c_save", "none")
  /\ UNCHANGED <<file, nops, estado, id_quedada, new_meetup, meetup, ghosts>>

\* lines 223-242: save, then the success embed or the error message
c_save(h, wr) ==
  /\ pc[h] = "c_save"
  /\ Runnable(h)
  /\ wr \in WriteOutcomes(meetups_data[h])
  /\ file' = save_file(file, meetups_data[h], wr)
  /\ Goto(h, "send", IF save_meetups(wr) THEN "created" ELSE "create_error")
  /\ hist' = Append(hist, [cmd |-> "crear", estado |-> estado[h],
                           id |-> new_meetup[h].id,
                           res |-> IF save_meetups(wr) THEN "created"
                                   ELSE "create_error"])
  /\ IF save_meetups(wr)
     THEN /\ batch' = Append(batch, new_meetup[h].id)
          /\ pendingMax' = {}
     ELSE UNCHANGED <<batch, pendingMax>>
  /\ UNCHANGED <<nops, locals, retired>>

(* ------------------------ eliminar_quedada ----------------------------- *)
\* lines 414-416: the manage_messages permission of the caller
e_perm(h, allowed, id) ==
  /\ pc[h] = "e_perm"
  /\ Runnable(h)
  /\ IF ~allowed THEN
       Goto(h, "send", "no_permission") /\ UNCHANGED id_quedada
     ELSE
       /\ Goto(h, "e_find", "none")
       /\ id_quedada' = [id_quedada EXCEPT ![h] = id]
  /\ UNCHANGED <<file, nops, estado, new_meetup, meetups_data, meetup, ghosts>>

\* lines 418-428: load, search for the id, not-found message
e_find(h, rd) ==
  /\ pc[h] = "e_find"
  /\ Runnable(h)
  /\ meetups_data' = [meetups_data EXCEPT ![h] = get_meetups(file, rd)]
  /\ IF find_index(get_meetups(file, rd), id_quedada[h]) = 0
     THEN /\ Goto(h, "send", "not_found")
          /\ hist' = Append(hist, [cmd |-> "eliminar", estado |-> "",
                                   id |-> id_quedada[h], res |-> "not_found"])
     ELSE /\ Goto(h, "e_del", "none")
          /\ UNCHANGED hist
  /\ UNCHANGED <<file, nops, estado, id_quedada, new_meetup, meetup,
                 batch, retired, pendingMax>>

\* lines 430-432: keep the record, delete it from the list
e_del(h) ==
  /\ pc[h] = "e_del"
  /\ Runnable(h)
  /\ LET i == find_index(meetups_data[h], id_quedada[h])
     IN /\ meetup' = [meetup EXCEPT ![h] = meetups_data[h][i]]
        /\ meetups_data' = [meetups_data EXCEPT ![h] = RemoveAt(meetups_data[h], i)]
  /\ Goto(h, "e_save", "none")
  /\ UNCHANGED <<file, nops, estado, id_quedada, new_meetup, ghosts>>

\* lines 434-447: save, then the deleted embed or the error message
e_save(h, wr) ==
  /\ pc[h] = "e_save"
  /\ Runnable(h)
  /\ wr \in WriteOutcomes(meetups_data[h])
  /\ file' = save_file(file, meetups_data[h], wr)
  /\ Goto(h, "send", IF save_meetups(wr) THEN "deleted" ELSE "delete_error")
  /\ hist' = Append(hist, [cmd |-> "eliminar", estado |-> "",
                           id |-> id_quedada[h],
                           res |-> IF save_meetups(wr) THEN "deleted"
                                   ELSE "delete_error"])
  /\ IF save_meetups(wr)
     THEN /\ batch' = <<>>
          /\ IF \E x \in Ids(meetups_data[h]) : x > id_quedada[h]
             THEN /\ retired' = retired \cup {id_quedada[h]}
                  /\ UNCHANGED pendingMax
             ELSE /\ pendingMax' = pendingMax \cup {id_quedada[h]}
                  /\ UNCHANGED retired
     ELSE UNCHANGED <<batch, retired, pendingMax>>
  /\ UNCHANGED <<nops, locals>>

(* ----------------------------- quedadas -------------------------------- *)
\* lines 131-166: load and show the list, or the no-meetups message
q_list(h, rd) ==
  /\ pc[h] = "q_list"
  /\ Runnable(h)
  /\ meetups_data' = [meetups_data EXCEPT ![h] = get_meetups(file, rd)]
  /\ Goto(h, "send", IF get_meetups(file, rd) = <<>> THEN "no_meetups"
                     ELSE "listed")
  /\ UNCHANGED <<file, nops, estado, id_quedada, new_meetup, meetup, ghosts>>

(* ------------------------- specifications ------------------------------ *)
\* the steps of the handlers, with the outcomes rds of a read of the file
\* and the outcomes wrs of a write
Steps(h, rds, wrs) ==
  \/ \E fecha \in Fechas, hora \in Horas, est \in Estados :
       c_validate(h, fecha, hora, est)
  \/ \E rd \in rds : c_new(h, rd)
  \/ \E rd \in rds : c_load(h, rd)
  \/ \E wr \in wrs : c_save(h, wr)
  \/ \E allowed \in BOOLEAN, id \in 1..MaxIdArg : e_perm(h, allowed, id)
  \/ \E rd \in rds : e_find(h, rd)
  \/ e_del(h)
  \/ \E wr \in wrs : e_save(h, wr)
  \/ \E rd \in rds : q_list(h, rd)

\* Commands arrive while others are in flight; the storage medium works:
\* every read and write of the file succeeds.
Next ==
  \E h \in Handlers :
    \/ \E c \in Commands : Dispatch(h, c, MaxOps)
    \/ Steps(h, ReadOk, WriteOk)
    \/ SendDone(h)

Spec == Init /\ [][Next]_vars

\* Commands issued one at a time: the next one is dispatched when the
\* handler of the previous one has ended.
SeqNext ==
  \/ \E c \in Commands : Dispatch(1, c, MaxSeqOps)
  \/ Steps(1, ReadOk, WriteOk)
  \/ SendDone(1)

SeqSpec == Init /\ [][SeqNext]_vars

\* The storage medium can fail: a read can raise, a write can raise at
\* open() or part-way.
AllWrites == (-1)..(MaxFaultOps + 2)

FaultNext ==
  \E h \in FaultHandlers :
    \/ \E c \in Commands : Dispatch(h, c, MaxFaultOps)
    \/ Steps(h, ReadOutcomes, AllWrites)
    \/ SendDone(h)

FaultSpec == Init /\ [][FaultNext]_vars

(* ----------------------------- claims ---------------------------------- *)
\* the registry a load of the store returns when the read succeeds
Registry == get_meetups(file, "ok")

\* C1: commands issued one at a time from the empty store: the records of
\* the stored registry have pairwise distinct ids, each a positive integer.
C1_DistinctPositiveIds ==
  /\ \A i, j \in 1..Len(Registry) : i # j => Registry[i].id # Registry[j].id
  /\ \A i \in 1..Len(Registry) : Registry[i].id \in Nat \ {0}

\* C1 witness: two records are stored after a delete has taken a record out
C1_Witness ==
  /\ Len(Registry) >= 2
  /\ retired # {}
  /\ resp[1] = "created"

\* C2: creates in flight together get distinct, contiguous new ids: the ids
\* given since the last delete go up by one, and each is the id of exactly
\* one stored record.
C2_ContiguousIds ==
  /\ \A i \in 1..(Len(batch) - 1) : batch[i + 1] = batch[i] + 1
  /\ \A i \in 1..Len(batch) :
       Cardinality({k \in 1..Len(Registry) : Registry[k].id = batch[i]}) = 1

\* C2 witness: two creates, both still in flight, have both saved
C2_Witness ==
  \E h1, h2 \in Handlers :
    /\ h1 # h2
    /\ pc[h1] = "send" /\ resp[h1] = "created"
    /\ pc[h2] = "send" /\ resp[h2] = "created"
    /\ Len(batch) >= 2

\* one store operation applied to a registry on its own: the registry it
\* leaves and the result it reports
SerialStep(reg, op) ==
  IF op.cmd = "crear"
  THEN LET n == IF reg = <<>> THEN 1 ELSE Max(Ids(reg)) + 1
       IN [reg |-> Append(reg, [id |-> n, status |-> op.estado,
                                participants |-> <<>>]),
           id |-> n, res |-> "created"]
  ELSE IF op.id \in Ids(reg)
       THEN LET i == CHOOSE k \in 1..Len(reg) : reg[k].id = op.id
            IN [reg |-> SubSeq(reg, 1, i - 1) \o SubSeq(reg, i + 1, Len(reg)),
                id |-> op.id, res |-> "deleted"]
       ELSE [reg |-> reg, id |-> op.id, res |-> "not_found"]

\* the operations of ops applied one after the other from the empty registry;
\* ok says that each reported what the handler reported
RECURSIVE SerialRun(_)
SerialRun(ops) ==
  IF ops = <<>> THEN [reg |-> <<>>, ok |-> TRUE]
  ELSE LET before == SerialRun(SubSeq(ops, 1, Len(ops) - 1))
           op == ops[Len(ops)]
           step == SerialStep(before.reg, op)
       IN [reg |-> step.reg,
           ok |-> before.ok /\ step.id = op.id /\ step.res = op.res]

\* C3: handlers in flight together are linearizable: the stored registry is
\* the one that the store operations leave when applied one at a time in the
\* order of their saves, each reporting what its handler reported, so no
\* reported create or delete is lost.
C3_Linearizable ==
  /\ SerialRun(hist).ok
  /\ SerialRun(hist).reg = Registry

\* C3 witness: a create and a delete, both still in flight, have both saved
C3_Witness ==
  \E h1, h2 \in Handlers :
    /\ pc[h1] = "send" /\ resp[h1] = "created"
    /\ pc[h2] = "send" /\ resp[h2] = "deleted"
    /\ Len(hist) >= 3

\* positions from which the next step of a handler loads the store
LoadPoints == {"c_new", "c_load", "e_find", "q_list"}
SavePoints == {"c_save", "e_save"}

\* C4: a load of a store that cannot be parsed ends the handler with a
\* corrupt-store report, and no handler saves over a store that cannot be
\* parsed.
C4_CorruptStoreSurfaced ==
  [][\A h \in Handlers :
       /\ (pc[h] \in LoadPoints /\ pc'[h] # pc[h] /\ ~json_parses(file))
            => (pc'[h] = "send" /\ resp'[h] = "corrupt_store")
       /\ (pc[h] \in SavePoints /\ pc'[h] # pc[h] /\ ~json_parses(file))
            => file' = file]_vars

\* C5: the store a load can observe is a complete registry document at
\* every point: a step that changes the file leaves the complete document of
\* the registry that a handler saves.
C5_StoreNeverPartial ==
  [][file' # file =>
       \E h \in Handlers :
         /\ pc[h] \in SavePoints
         /\ file' = json_dump(meetups_data[h])]_vars

\* C6: a create or delete whose save fails reports the failure and leaves
\* the stored bytes as they were.
C6_FailedSaveLeavesStore ==
  [][\A h \in Handlers :
       (pc[h] \in SavePoints /\ resp'[h] \in {"create_error", "delete_error"})
         => (pc'[h] = "send" /\ file' = file)]_vars

\* a handler's save has just succeeded in this step
Created(h) == pc[h] = "c_save" /\ resp'[h] = "created"
Deleted(h) == pc[h] = "e_save" /\ resp'[h] = "deleted"

\* the id max + 1 of a registry, 1 for the empty one
NextId(reg) == IF reg = <<>> THEN 1 ELSE Max(Ids(reg)) + 1

\* each successful create appends one record whose id is max + 1
CreateAssignsMaxPlusOne(h) ==
  Created(h) =>
    /\ new_meetup[h].id = NextId(Registry)
    /\ file' = json_dump(Append(Registry, new_meetup[h]))

\* C7 as stated: max + 1, an id deleted below the maximum is never assigned
\* again, an id deleted as the maximum is assigned by the next create.
C7_Original ==
  [][\A h \in Handlers :
       /\ CreateAssignsMaxPlusOne(h)
       /\ Created(h) => new_meetup[h].id \notin retired
       /\ Created(h) => \A d \in pendingMax : new_meetup[h].id = d]_vars

\* C7 amended: max + 1; an id deleted below the maximum is not assigned
\* while a record with a larger id is stored; an id deleted as the maximum
\* is assigned by the next create exactly when it is 1 or the id one below
\* it is still stored.
C7_MaxPlusOne ==
  [][\A h \in Handlers :
       /\ CreateAssignsMaxPlusOne(h)
       /\ Created(h) =>
            \A d \in retired :
              (\E x \in Ids(Registry) : x > d) => new_meetup[h].id # d
       /\ Created(h) =>
            \A d \in pendingMax :
              (new_meetup[h].id = d) <=> (d = 1 \/ (d - 1) \in Ids(Registry))]_vars

\* C7 witness: the maximum id 2 was deleted while id 1 stayed stored, and
\* the create after it was given id 2 again
C7_Witness ==
  /\ Len(hist) >= 2
  /\ hist[Len(hist)].res = "created"
  /\ hist[Len(hist) - 1].res = "deleted"
  /\ hist[Len(hist) - 1].id = hist[Len(hist)].id
  /\ resp[1] = "created"
  /\ new_meetup[1].id = 2
  /\ Len(Registry) = 2

\* C8: a delete that reports success leaves the stored sequence with exactly
\* the record of that id taken out, the others in their order with their
\* ids, and a list that follows does not show the id.
C8_DeleteRemovesOne ==
  [][\A h \in Handlers :
       /\ Deleted(h) =>
            \E i \in 1..Len(Registry) :
              /\ Registry[i].id = id_quedada[h]
              /\ Registry[i] = meetup[h]
              /\ get_meetups(file', "ok") =
                   SubSeq(Registry, 1, i - 1) \o SubSeq(Registry, i + 1, Len(Registry))
              /\ id_quedada[h] \notin Ids(get_meetups(file', "ok"))
       /\ (pc[h] = "q_list" /\ pc'[h] = "send") =>
            /\ meetups_data'[h] = Registry
            /\ Len(hist) > 0 /\ hist[Len(hist)].res = "deleted"
                 => hist[Len(hist)].id \notin Ids(meetups_data'[h])]_vars

\* C8 witness: the middle record of three was deleted, the other two remain
C8_Witness ==
  /\ resp[1] = "deleted"
  /\ meetup[1].id = 2
  /\ Len(Registry) = 2
  /\ Registry[1].id = 1
  /\ Registry[2].id = 3

\* C9: a delete of an id that no stored record has reports not-found, goes
\* on to no save, and leaves the file as it is; so does the delete of the id
\* that the delete just before it took out.
C9_DeleteAbsentId ==
  [][\A h \in Handlers :
       /\ (pc[h] = "e_find" /\ pc'[h] # "e_find"
             /\ id_quedada[h] \notin Ids(Registry))
            => (resp'[h] = "not_found" /\ pc'[h] = "send" /\ file' = file)
       /\ (pc[h] = "e_find" /\ pc'[h] # "e_find" /\ Len(hist) > 0
             /\ hist[Len(hist)].res = "deleted"
             /\ hist[Len(hist)].id = id_quedada[h])
            => resp'[h] = "not_found"
       /\ resp[h] = "not_found" => (file' = file /\ pc'[h] \in {"send", "idle"})]_vars

\* C9 witness: an id was deleted, and the next delete of it found nothing
C9_Witness ==
  /\ Len(hist) >= 2
  /\ hist[Len(hist)].res = "not_found"
  /\ hist[Len(hist) - 1].res = "deleted"
  /\ hist[Len(hist) - 1].id = hist[Len(hist)].id
  /\ resp[1] = "not_found"
  /\ Registry # <<>>

\* C10: every record of the stored registry has a status among the declared
\* choices, a create with any other estado being rejected.
C10_StatusInChoices ==
  \A i \in 1..Len(Registry) : Registry[i].status \in Choices

\* the registry a create appended its record to: meetups_data without the
\* record at its end
AppendedTo(h) == SubSeq(meetups_data[h], 1, Len(meetups_data[h]) - 1)

\* C11: in a create about to save, the id of the new record is the one that
\* the registry it was appended to gives (the two loads returned the same
\* registry), so it is greater than every id of that registry, whatever the
\* outcome of each of the two loads.
C11_IdFromAppendedRegistry ==
  \A h \in Handlers :
    pc[h] = "c_save" =>
      /\ meetups_data[h][Len(meetups_data[h])] = new_meetup[h]
      /\ new_meetup[h].id = NextId(AppendedTo(h))
      /\ \A x \in Ids(AppendedTo(h)) : x < new_meetup[h].id

====
